---- MODULE Spec2Model ----
(***************************************************************************)
(* GRIB1 parameter tables (gribberish/src/grib1/parameters.rs).            *)
(*                                                                         *)
(* The module is three `match` tables over u8 codes and a dispatcher on    *)
(* the originating center.  A `match` is modelled as its arms in           *)
(* declaration order with first-match semantics, so a repeated pattern or  *)
(* a record whose `number` differs from its pattern stays expressible.     *)
(* Callers are threads that invoke the two public functions and hold the   *)
(* returned value.                                                         *)
(***************************************************************************)
EXTENDS Integers, Sequences, FiniteSets, TLC

\* Largest value of the u8 arguments.
U8Max == 255

U8 == 0 .. U8Max

\* Number of concurrent callers in SpecConc.
NumCallers == 2

\* Arguments the concurrent callers draw from: both dispatched centers and
\* an unlisted one; codes defined by both tables, by one only, by neither.
ConcCenters == {7, 98, 255}

ConcParameters == {7, 11, 61, 131, 250}

ConcLevelTypes == {1, 100, 250}

VARIABLES pc, op, center_id, parameter, level_type, table, result

vars == <<pc, op, center_id, parameter, level_type, table, result>>

----------------------------------------------------------------------------
\* Values

Grib1Parameter(number, abbreviation, name, units) ==
  [number |-> number, abbreviation |-> abbreviation, name |-> name,
   units |-> units]

\* Option<Grib1Parameter>
None == <<"None">>

Some(v) == <<"Some", v>>

\* Outcome of a call that panics instead of returning.
Abort == <<"Abort">>

\* One arm `pat => Grib1Parameter { number, abbreviation, name, units }`.
Arm(pat, number, abbreviation, name, units) ==
  [pat |-> pat, value |-> Grib1Parameter(number, abbreviation, name, units)]

\* One arm `pat => (name, units)`.
LevelArm(pat, name, units) == [pat |-> pat, value |-> <<name, units>>]

\* Index of the arm a `match` on x takes: the first arm whose pattern is x,
\* or 0 when only the wildcard arm matches.
FirstArm(arms, x) ==
  IF \E i \in DOMAIN arms : arms[i].pat = x
    THEN CHOOSE i \in DOMAIN arms :
           /\ arms[i].pat = x
           /\ \A j \in 1 .. (i - 1) : arms[j].pat # x
    ELSE 0

----------------------------------------------------------------------------
\* Tables

EcmwfArms ==
  <<
    Arm(1, 1, "sp", "Surface pressure", "Pa"),
    Arm(2, 2, "prmsl", "Pressure reduced to MSL", "Pa"),
    Arm(11, 11, "t", "Temperature", "K"),
    Arm(20, 20, "vit", "Visibility", "m"),
    Arm(22, 22, "clmr", "Mixing ratio", "kg kg-1"),
    Arm(29, 29, "lvt", "Type of low vegetation", "~"),
    Arm(31, 31, "ci", "Sea-ice cover", "(0-1)"),
    Arm(32, 32, "asn", "Snow albedo", "(0-1)"),
    Arm(33, 33, "rsn", "Snow density", "kg m-3"),
    Arm(34, 34, "sstk", "Sea surface temperature", "K"),
    Arm(39, 39, "swvl1", "Volumetric soil water layer 1", "m3 m-3"),
    Arm(44, 44, "es", "Snow evaporation", "m of water equivalent"),
    Arm(47, 47, "dsrp", "Direct solar radiation", "W m-2 s"),
    Arm(49, 49, "10fg", "10 metre wind gust", "m s-1"),
    Arm(50, 50, "lspf", "Large-scale precipitation fraction", "s"),
    Arm(51, 51, "q", "Specific humidity", "kg kg-1"),
    Arm(52, 52, "r", "Relative humidity", "%"),
    Arm(53, 53, "q", "Humidity mixing ratio", "kg kg-1"),
    Arm(54, 54, "pwat", "Precipitable water", "kg m-2"),
    Arm(59, 59, "prate", "Precipitation rate", "kg m-2 s-1"),
    Arm(61, 61, "tp", "Total precipitation", "m"),
    Arm(66, 66, "lsff", "Lake shape factor", "dimensionless"),
    Arm(67, 67, "lmlt", "Lake mix-layer temperature", "K"),
    Arm(71, 71, "tcc", "Total cloud cover", "%"),
    Arm(78, 78, "tclw", "Total column cloud liquid water", "kg m-2"),
    Arm(79, 79, "tciw", "Total column cloud ice water", "kg m-2"),
    Arm(89, 89, "sunsd", "Sunshine duration", "s"),
    Arm(121, 121, "mx2t", "Maximum temperature at 2 metres", "K"),
    Arm(122, 122, "mn2t", "Minimum temperature at 2 metres", "K"),
    Arm(123, 123, "10fg", "10 metre wind gust", "m s-1"),
    Arm(124, 124, "emis", "Surface emissivity", "dimensionless"),
    Arm(125, 125, "veg", "Vegetation fraction", "(0-1)"),
    Arm(126, 126, "sltyp", "Soil type", "dimensionless"),
    Arm(127, 127, "cape", "Convective available potential energy", "J kg-1"),
    Arm(128, 128, "cin", "Convective inhibition", "J kg-1"),
    Arm(129, 129, "z", "Geopotential", "m2 s-2"),
    Arm(130, 130, "t", "Temperature", "K"),
    Arm(131, 131, "u", "U component of wind", "m s-1"),
    Arm(132, 132, "v", "V component of wind", "m s-1"),
    Arm(133, 133, "q", "Specific humidity", "kg kg-1"),
    Arm(134, 134, "sp", "Surface pressure", "Pa"),
    Arm(135, 135, "w", "Vertical velocity", "Pa s-1"),
    Arm(136, 136, "tcw", "Total column water", "kg m-2"),
    Arm(137, 137, "tcwv", "Total column water vapour", "kg m-2"),
    Arm(139, 139, "stl1", "Soil temperature level 1", "K"),
    Arm(141, 141, "sd", "Snow depth", "m of water equivalent"),
    Arm(143, 143, "cp", "Convective precipitation", "m"),
    Arm(144, 144, "sf", "Snowfall", "m of water equivalent"),
    Arm(148, 148, "chnk", "Charnock", "dimensionless"),
    Arm(151, 151, "prmsl", "Pressure reduced to MSL", "Pa"),
    Arm(157, 157, "r", "Relative humidity", "%"),
    Arm(159, 159, "blh", "Boundary layer height", "m"),
    Arm(164, 164, "tcc", "Total cloud cover", "(0-1)"),
    Arm(165, 165, "u10", "10 metre U wind component", "m s-1"),
    Arm(166, 166, "v10", "10 metre V wind component", "m s-1"),
    Arm(167, 167, "t2m", "2 metre temperature", "K"),
    Arm(168, 168, "d2m", "2 metre dewpoint temperature", "K"),
    Arm(169, 169, "ssrd", "Surface solar radiation downwards", "J m-2"),
    Arm(179, 179, "ttr", "Top net thermal radiation", "J m-2"),
    Arm(186, 186, "lcc", "Low cloud cover", "(0-1)"),
    Arm(187, 187, "mcc", "Medium cloud cover", "(0-1)"),
    Arm(188, 188, "hcc", "High cloud cover", "(0-1)"),
    Arm(213, 213, "vimd", "Vertically integrated moisture divergence", "kg m-2"),
    Arm(217, 217, "sdwe", "Standard deviation wave height", "m"),
    Arm(218, 218, "mpww", "Mean wave period based on second moment", "s"),
    Arm(219, 219, "p1ww", "Mean wave period based on first moment", "s"),
    Arm(220, 220, "mzww", "Mean zero-crossing wave period", "s"),
    Arm(221, 221, "ipww", "Mean period of wind waves", "s"),
    Arm(226, 226, "10ws", "10 metre wind speed", "m s-1"),
    Arm(228, 228, "tp", "Total precipitation", "m"),
    Arm(229, 229, "iews", "Instantaneous eastward turbulent surface stress", "N m-2"),
    Arm(230, 230, "inss", "Instantaneous northward turbulent surface stress", "N m-2"),
    Arm(231, 231, "ishf", "Instantaneous surface heat flux", "W m-2"),
    Arm(232, 232, "ie", "Instantaneous moisture flux", "kg m-2 s-1"),
    Arm(234, 234, "lsrh", "Logarithm of surface roughness length for heat", "dimensionless"),
    Arm(235, 235, "skt", "Skin temperature", "K"),
    Arm(236, 236, "stl4", "Soil temperature level 4", "K"),
    Arm(237, 237, "swvl4", "Volumetric soil water layer 4", "m3 m-3"),
    Arm(238, 238, "tsn", "Temperature of snow layer", "K"),
    Arm(239, 239, "csf", "Convective snowfall", "m of water equivalent"),
    Arm(240, 240, "lsf", "Large-scale snowfall", "m of water equivalent"),
    Arm(241, 241, "acf", "Accumulated cloud fraction tendency", "(-1 to 1)"),
    Arm(243, 243, "fal", "Forecast albedo", "(0-1)"),
    Arm(244, 244, "fsr", "Forecast surface roughness", "m"),
    Arm(246, 246, "clwc", "Cloud liquid water content", "kg kg-1"),
    Arm(247, 247, "ciwc", "Cloud ice water content", "kg kg-1")
  >>

\* Variant: the arm for 34 was pasted from the arm for 33 and kept its number.
WmoArmsPastedNumber ==
  <<
    Arm(1, 1, "pres", "Pressure", "Pa"),
    Arm(2, 2, "prmsl", "Pressure reduced to MSL", "Pa"),
    Arm(7, 7, "gh", "Geopotential height", "gpm"),
    Arm(11, 11, "t", "Temperature", "K"),
    Arm(33, 33, "u", "U-component of wind", "m s-1"),
    Arm(34, 33, "v", "V-component of wind", "m s-1"),
    Arm(39, 39, "w", "Vertical velocity", "Pa s-1"),
    Arm(51, 51, "q", "Specific humidity", "kg kg-1"),
    Arm(52, 52, "r", "Relative humidity", "%"),
    Arm(61, 61, "tp", "Total precipitation", "kg m-2")
  >>

\* Variant: the arm for 34 was pasted from the arm for 33 and kept its
\* pattern, so it is shadowed.
WmoArmsPastedPattern ==
  <<
    Arm(1, 1, "pres", "Pressure", "Pa"),
    Arm(2, 2, "prmsl", "Pressure reduced to MSL", "Pa"),
    Arm(7, 7, "gh", "Geopotential height", "gpm"),
    Arm(11, 11, "t", "Temperature", "K"),
    Arm(33, 33, "u", "U-component of wind", "m s-1"),
    Arm(33, 34, "v", "V-component of wind", "m s-1"),
    Arm(39, 39, "w", "Vertical velocity", "Pa s-1"),
    Arm(51, 51, "q", "Specific humidity", "kg kg-1"),
    Arm(52, 52, "r", "Relative humidity", "%"),
    Arm(61, 61, "tp", "Total precipitation", "kg m-2")
  >>

WmoArms ==
  <<
    Arm(1, 1, "pres", "Pressure", "Pa"),
    Arm(2, 2, "prmsl", "Pressure reduced to MSL", "Pa"),
    Arm(7, 7, "gh", "Geopotential height", "gpm"),
    Arm(11, 11, "t", "Temperature", "K"),
    Arm(33, 33, "u", "U-component of wind", "m s-1"),
    Arm(34, 34, "v", "V-component of wind", "m s-1"),
    Arm(39, 39, "w", "Vertical velocity", "Pa s-1"),
    Arm(51, 51, "q", "Specific humidity", "kg kg-1"),
    Arm(52, 52, "r", "Relative humidity", "%"),
    Arm(61, 61, "tp", "Total precipitation", "kg m-2")
  >>

LevelArms ==
  <<
    LevelArm(1, "surface", ""),
    LevelArm(2, "cloud_base", ""),
    LevelArm(3, "cloud_top", ""),
    LevelArm(4, "isotherm_zero", "m"),
    LevelArm(100, "isobaric", "hPa"),
    LevelArm(102, "mean_sea_level", ""),
    LevelArm(103, "fixed_height", "m"),
    LevelArm(105, "fixed_height_above_ground", "m"),
    LevelArm(106, "sigma", "sigma"),
    LevelArm(107, "sigma_height", "sigma"),
    LevelArm(108, "sigma_pressure", "sigma"),
    LevelArm(109, "hybrid", "hybrid"),
    LevelArm(111, "depth_below_surface", "m"),
    LevelArm(112, "layer_between_depths", "m"),
    LevelArm(113, "isentropic", "K"),
    LevelArm(114, "layer_between_isentropic", "K"),
    LevelArm(200, "entire_atmosphere", ""),
    LevelArm(201, "entire_ocean", "")
  >>

----------------------------------------------------------------------------
\* Lookups

\* Variant: a code the standard table defines is taken from the standard
\* table, the ECMWF arms serve the remaining codes.
get_ecmwf_parameter_standard_first(p) ==
  LET i == FirstArm(EcmwfArms, p)
      j == FirstArm(WmoArms, p)
  IN  IF j # 0 THEN Some(WmoArms[j].value)
      ELSE IF i # 0 THEN Some(EcmwfArms[i].value)
      ELSE None

\* Variant: a miss in the ECMWF table chains to the standard table.
get_ecmwf_parameter_chained(p) ==
  LET i == FirstArm(EcmwfArms, p)
      j == FirstArm(WmoArms, p)
  IN  IF i # 0 THEN Some(EcmwfArms[i].value)
      ELSE IF j # 0 THEN Some(WmoArms[j].value)
      ELSE None

get_ecmwf_parameter(p) ==
  LET i == FirstArm(EcmwfArms, p)
  IN  IF i = 0 THEN None ELSE Some(EcmwfArms[i].value)

get_wmo_standard_parameter(p) ==
  LET i == FirstArm(WmoArms, p)
  IN  IF i = 0 THEN None ELSE Some(WmoArms[i].value)

\* Variant: the NCEP stub delegates to the ECMWF table.
get_ncep_parameter_ecmwf(p) == get_ecmwf_parameter(p)

get_ncep_parameter(p) == get_wmo_standard_parameter(p)

\* Variant: the wildcard arm selects the ECMWF table.
select_table_default_ecmwf(c) ==
  IF c = 98 THEN "ecmwf"
  ELSE IF c = 7 THEN "ncep"
  ELSE "ecmwf"

\* Variant: the 98 arm is missing, so ECMWF takes the wildcard arm.
select_table_no_ecmwf(c) ==
  IF c = 7 THEN "ncep"
  ELSE "wmo"

\* Variant: the wildcard arm panics on an unlisted center.
select_table_default_panic(c) ==
  IF c = 98 THEN "ecmwf"
  ELSE IF c = 7 THEN "ncep"
  ELSE IF c = 0 THEN "wmo"
  ELSE "none"

\* The arm of the `match center_id` in get_parameter.
select_table(c) ==
  IF c = 98 THEN "ecmwf"
  ELSE IF c = 7 THEN "ncep"
  ELSE "wmo"

\* Variant: the ECMWF arm calls the standard table.
lookup_in_swapped(h, p) ==
  CASE h = "ecmwf" -> get_wmo_standard_parameter(p)
    [] h = "ncep"  -> get_ncep_parameter(p)
    [] h = "wmo"   -> get_wmo_standard_parameter(p)
    [] OTHER       -> Abort

\* The call made by the selected arm.
lookup_in(h, p) ==
  CASE h = "ecmwf" -> get_ecmwf_parameter(p)
    [] h = "ncep"  -> get_ncep_parameter(p)
    [] h = "wmo"   -> get_wmo_standard_parameter(p)
    [] OTHER       -> Abort

\* Variant: the center is kept in a static shared by all callers, so a call
\* dispatches on the center of whichever call is in flight.
get_parameter_shared_center(c, p) ==
  IF \E u \in DOMAIN pc :
       /\ pc[u] = "called"
       /\ op[u] = "get_parameter"
       /\ center_id[u] # c
    THEN LET u == CHOOSE u \in DOMAIN pc :
                    /\ pc[u] = "called"
                    /\ op[u] = "get_parameter"
                    /\ center_id[u] # c
         IN  lookup_in(select_table(center_id[u]), p)
    ELSE lookup_in(select_table(c), p)

get_parameter(c, p) == lookup_in(select_table(c), p)

\* Variant: the wildcard arm panics instead of returning the sentinel.
get_level_type_info_panic(l) ==
  LET i == FirstArm(LevelArms, l)
  IN  IF i = 0 THEN Abort ELSE LevelArms[i].value

get_level_type_info(l) ==
  LET i == FirstArm(LevelArms, l)
  IN  IF i = 0 THEN <<"unknown", "">> ELSE LevelArms[i].value

----------------------------------------------------------------------------
\* Callers

InitCallers(n) ==
  /\ pc = [t \in 1 .. n |-> "idle"]
  /\ op = [t \in 1 .. n |-> "none"]
  /\ center_id = [t \in 1 .. n |-> 0]
  /\ parameter = [t \in 1 .. n |-> 0]
  /\ level_type = [t \in 1 .. n |-> 0]
  /\ table = [t \in 1 .. n |-> "none"]
  /\ result = [t \in 1 .. n |-> <<>>]

Callers == DOMAIN pc

\* A caller invokes get_parameter(c, p) with c drawn from Cs and p from Ps.
CallGetParameter(t, Cs, Ps) ==
  /\ pc[t] = "idle"
  /\ \E c \in Cs, p \in Ps :
       /\ center_id' = [center_id EXCEPT ![t] = c]
       /\ parameter' = [parameter EXCEPT ![t] = p]
  /\ pc' = [pc EXCEPT ![t] = "called"]
  /\ op' = [op EXCEPT ![t] = "get_parameter"]
  /\ UNCHANGED <<level_type, table, result>>

\* get_parameter runs to its return.
ReturnGetParameter(t) ==
  /\ pc[t] = "called"
  /\ op[t] = "get_parameter"
  /\ table' = [table EXCEPT ![t] = select_table(center_id[t])]
  /\ result' = [result EXCEPT ![t] = get_parameter(center_id[t], parameter[t])]
  /\ pc' = [pc EXCEPT ![t] = "done"]
  /\ UNCHANGED <<op, center_id, parameter, level_type>>

\* A caller invokes get_level_type_info(l) with l drawn from Ls.
CallGetLevelTypeInfo(t, Ls) ==
  /\ pc[t] = "idle"
  /\ \E l \in Ls : level_type' = [level_type EXCEPT ![t] = l]
  /\ pc' = [pc EXCEPT ![t] = "called"]
  /\ op' = [op EXCEPT ![t] = "get_level_type_info"]
  /\ UNCHANGED <<center_id, parameter, table, result>>

\* get_level_type_info runs to its return.
ReturnGetLevelTypeInfo(t) ==
  /\ pc[t] = "called"
  /\ op[t] = "get_level_type_info"
  /\ result' = [result EXCEPT ![t] = get_level_type_info(level_type[t])]
  /\ pc' = [pc EXCEPT ![t] = "done"]
  /\ UNCHANGED <<op, center_id, parameter, level_type, table>>

\* The caller drops the returned value and is ready for its next call.
Drop(t) ==
  /\ pc[t] = "done"
  /\ pc' = [pc EXCEPT ![t] = "idle"]
  /\ op' = [op EXCEPT ![t] = "none"]
  /\ center_id' = [center_id EXCEPT ![t] = 0]
  /\ parameter' = [parameter EXCEPT ![t] = 0]
  /\ level_type' = [level_type EXCEPT ![t] = 0]
  /\ table' = [table EXCEPT ![t] = "none"]
  /\ result' = [result EXCEPT ![t] = <<>>]

\* One caller, every u8 argument.
Init == InitCallers(1)

Next ==
  \/ \E t \in Callers : CallGetParameter(t, U8, U8)
  \/ \E t \in Callers : ReturnGetParameter(t)
  \/ \E t \in Callers : CallGetLevelTypeInfo(t, U8)
  \/ \E t \in Callers : ReturnGetLevelTypeInfo(t)
  \/ \E t \in Callers : Drop(t)

Spec == Init /\ [][Next]_vars

\* NumCallers concurrent callers, arguments from the Conc sets.
InitConc == InitCallers(NumCallers)

NextConc ==
  \/ \E t \in Callers : CallGetParameter(t, ConcCenters, ConcParameters)
  \/ \E t \in Callers : ReturnGetParameter(t)
  \/ \E t \in Callers : CallGetLevelTypeInfo(t, ConcLevelTypes)
  \/ \E t \in Callers : ReturnGetLevelTypeInfo(t)
  \/ \E t \in Callers : Drop(t)

SpecConc == InitConc /\ [][NextConc]_vars

TypeOK ==
  /\ pc \in [Callers -> {"idle", "called", "done"}]
  /\ op \in [Callers -> {"none", "get_parameter", "get_level_type_info"}]
  /\ center_id \in [Callers -> U8]
  /\ parameter \in [Callers -> U8]
  /\ level_type \in [Callers -> U8]

----------------------------------------------------------------------------
\* Properties

\* Codes for which a table has an arm.
EcmwfCodes == {EcmwfArms[i].pat : i \in DOMAIN EcmwfArms}

WmoCodes == {WmoArms[i].pat : i \in DOMAIN WmoArms}

LevelCodes == {LevelArms[i].pat : i \in DOMAIN LevelArms}

\* Caller t holds the value returned by a get_parameter call.
DoneParameter(t) == pc[t] = "done" /\ op[t] = "get_parameter"

\* Caller t holds the value returned by a get_level_type_info call.
DoneLevel(t) == pc[t] = "done" /\ op[t] = "get_level_type_info"

\* C1: for center 98, a parameter number without an arm in the ECMWF table
\* yields None; the standard table is not consulted on the miss, also not
\* for a code the standard table defines.
C1_NoFallbackOnMiss ==
  \A t \in Callers :
    (DoneParameter(t) /\ center_id[t] = 98 /\ parameter[t] \notin EcmwfCodes)
      => result[t] = None

\* get_parameter(98, 7) returned None although the standard table has 7.
C1_Witness ==
  \E t \in Callers :
    /\ DoneParameter(t)
    /\ center_id[t] = 98
    /\ parameter[t] = 7
    /\ 7 \in WmoCodes
    /\ 7 \notin EcmwfCodes
    /\ result[t] = None

\* C2: for every center other than 98 and 7, get_parameter returns what the
\* standard table returns for the parameter; get_parameter(255, 11) is a
\* record abbreviated "t".
C2_UnlistedCenterIsStandard ==
  \A t \in Callers :
    (DoneParameter(t) /\ center_id[t] \notin {98, 7})
      => /\ result[t] = get_wmo_standard_parameter(parameter[t])
         /\ (center_id[t] = 255 /\ parameter[t] = 11)
              => /\ result[t][1] = "Some"
                 /\ result[t][2].abbreviation = "t"

\* get_parameter(255, 11) returned the standard record.
C2_Witness ==
  \E t \in Callers :
    /\ DoneParameter(t)
    /\ center_id[t] = 255
    /\ parameter[t] = 11
    /\ result[t][1] = "Some"
    /\ result[t][2].abbreviation = "t"

\* C3: center 7 returns exactly the standard table's result, so it has no
\* code outside the standard set; get_parameter(7, 61) is "tp", "Total
\* precipitation", "kg m-2".
C3_NcepIsDelegate ==
  \A t \in Callers :
    (DoneParameter(t) /\ center_id[t] = 7)
      => /\ result[t] = get_wmo_standard_parameter(parameter[t])
         /\ result[t][1] = "Some" => parameter[t] \in WmoCodes
         /\ parameter[t] = 61
              => result[t] = Some(Grib1Parameter(61, "tp",
                                    "Total precipitation", "kg m-2"))

\* get_parameter(7, 61) returned the standard record for 61.
C3_Witness ==
  \E t \in Callers :
    /\ DoneParameter(t)
    /\ center_id[t] = 7
    /\ parameter[t] = 61
    /\ result[t][1] = "Some"
    /\ result[t][2].units = "kg m-2"

\* C4: whenever get_parameter returns Some(record), record.number is the
\* parameter number asked for.
C4_NumberIsKey ==
  \A t \in Callers :
    (DoneParameter(t) /\ result[t][1] = "Some")
      => result[t][2].number = parameter[t]

\* A hit in the standard table for an arm other than the first.
C4_Witness ==
  \E t \in Callers :
    /\ DoneParameter(t)
    /\ table[t] = "wmo"
    /\ parameter[t] = 34
    /\ result[t][1] = "Some"
    /\ result[t][2].number = 34

\* C5: get_level_type_info returns a pair for every u8: for the eighteen
\* recognised codes the pair of that code, with a name other than "unknown"
\* (100 is ("isobaric", "hPa"), 1 is ("surface", "")), and for every other
\* code the sentinel ("unknown", "").
C5_LevelTypeTotal ==
  \A t \in Callers :
    DoneLevel(t)
      => /\ Len(result[t]) = 2
         /\ LevelCodes = {1, 2, 3, 4, 100, 102, 103, 105, 106, 107, 108, 109,
                          111, 112, 113, 114, 200, 201}
         /\ level_type[t] \in {1, 2, 3, 4, 100, 102, 103, 105, 106, 107, 108,
                               109, 111, 112, 113, 114, 200, 201}
              => /\ result[t][1] # "unknown"
                 /\ \E i \in DOMAIN LevelArms :
                      /\ LevelArms[i].pat = level_type[t]
                      /\ LevelArms[i].value = result[t]
         /\ level_type[t] \notin {1, 2, 3, 4, 100, 102, 103, 105, 106, 107,
                                  108, 109, 111, 112, 113, 114, 200, 201}
              => result[t] = <<"unknown", "">>
         /\ level_type[t] = 100 => result[t] = <<"isobaric", "hPa">>
         /\ level_type[t] = 1 => result[t] = <<"surface", "">>

\* get_level_type_info(250) returned the sentinel.
C5_Witness ==
  \E t \in Callers :
    /\ DoneLevel(t)
    /\ level_type[t] = 250
    /\ result[t] = <<"unknown", "">>

\* C6: get_parameter(98, 11) is Some("t", "Temperature", "K") and
\* get_parameter(98, 131) is Some with abbreviation "u", a code the standard
\* table has no arm for.
C6_EcmwfOwnRecords ==
  \A t \in Callers :
    (DoneParameter(t) /\ center_id[t] = 98)
      => /\ parameter[t] = 11
              => result[t] = Some(Grib1Parameter(11, "t", "Temperature", "K"))
         /\ parameter[t] = 131
              => /\ result[t][1] = "Some"
                 /\ result[t][2].abbreviation = "u"
                 /\ get_wmo_standard_parameter(131) = None

\* get_parameter(98, 131) returned the ECMWF record.
C6_Witness ==
  \E t \in Callers :
    /\ DoneParameter(t)
    /\ center_id[t] = 98
    /\ parameter[t] = 131
    /\ result[t][1] = "Some"
    /\ result[t][2].abbreviation = "u"

\* Callers t and u hold the values of two calls with identical arguments.
SameCall(t, u) ==
  /\ pc[t] = "done"
  /\ pc[u] = "done"
  /\ op[t] = op[u]
  /\ op[t] = "get_parameter"
       => center_id[t] = center_id[u] /\ parameter[t] = parameter[u]
  /\ op[t] = "get_level_type_info" => level_type[t] = level_type[u]

\* C7: under any interleaving of calls by concurrent callers, two calls with
\* identical arguments hold identical results, whatever ran before or
\* alongside them, and a step of one caller changes nothing another caller
\* holds or observes.
C7_CallsIndependent ==
  /\ [](\A t, u \in Callers : SameCall(t, u) => result[t] = result[u])
  /\ [][\A t \in Callers :
          (pc'[t] # pc[t])
            => \A u \in Callers \ {t} :
                 /\ pc'[u] = pc[u]
                 /\ op'[u] = op[u]
                 /\ center_id'[u] = center_id[u]
                 /\ parameter'[u] = parameter[u]
                 /\ level_type'[u] = level_type[u]
                 /\ table'[u] = table[u]
                 /\ result'[u] = result[u]]_vars

\* Two callers hold equal results of get_parameter(98, 11) while a call for
\* another center was made alongside.
C7_Witness ==
  \E t, u \in Callers :
    /\ t # u
    /\ SameCall(t, u)
    /\ op[t] = "get_parameter"
    /\ center_id[t] = 98
    /\ parameter[t] = 11
    /\ result[t] = result[u]
    /\ result[t][1] = "Some"

\* The arms of the table a handle stands for.
ArmsOf(h) ==
  CASE h = "ecmwf" -> EcmwfArms
    [] h = "ncep"  -> WmoArms
    [] h = "wmo"   -> WmoArms

\* C8: in each of the three tables a code is the pattern of at most one arm,
\* so no arm is shadowed by an earlier one.
C8_CodesUnique ==
  \A t \in Callers :
    /\ DoneParameter(t)
         => Cardinality({i \in DOMAIN ArmsOf(table[t]) :
                           ArmsOf(table[t])[i].pat = parameter[t]}) <= 1
    /\ DoneLevel(t)
         => Cardinality({i \in DOMAIN LevelArms :
                           LevelArms[i].pat = level_type[t]}) <= 1

\* A lookup that took the last arm of the ECMWF table.
C8_Witness ==
  \E t \in Callers :
    /\ DoneParameter(t)
    /\ table[t] = "ecmwf"
    /\ parameter[t] = EcmwfArms[Len(EcmwfArms)].pat
    /\ result[t] = Some(EcmwfArms[Len(EcmwfArms)].value)

\* C9: every center selects exactly one table (98 the ECMWF table, 7 the
\* NCEP delegate, any other the standard table), and every get_parameter
\* call can return and returns Some(record) or None, never an abort.
C9_DispatchTotal ==
  \A t \in Callers :
    /\ (pc[t] = "called" /\ op[t] = "get_parameter")
         => ENABLED ReturnGetParameter(t)
    /\ DoneParameter(t)
         => /\ table[t] \in {"ecmwf", "ncep", "wmo"}
            /\ table[t] = "ecmwf" <=> center_id[t] = 98
            /\ table[t] = "ncep" <=> center_id[t] = 7
            /\ table[t] = "wmo" <=> center_id[t] \notin {98, 7}
            /\ result[t] # Abort
            /\ \/ result[t] = None
               \/ /\ Len(result[t]) = 2
                  /\ result[t][1] = "Some"
                  /\ DOMAIN result[t][2]
                       = {"number", "abbreviation", "name", "units"}
                  /\ result[t][2].number \in U8

\* A call for the largest center and parameter returned None from the
\* standard table.
C9_Witness ==
  \E t \in Callers :
    /\ DoneParameter(t)
    /\ center_id[t] = U8Max
    /\ parameter[t] = U8Max
    /\ table[t] = "wmo"
    /\ result[t] = None

\* The policy that consults the ECMWF table first and the standard table on
\* a miss.
FallbackLookup(p) ==
  IF FirstArm(EcmwfArms, p) # 0
    THEN Some(EcmwfArms[FirstArm(EcmwfArms, p)].value)
    ELSE IF FirstArm(WmoArms, p) # 0
      THEN Some(WmoArms[FirstArm(WmoArms, p)].value)
      ELSE None

\* C10 as stated: for every parameter number, get_parameter(98, parameter)
\* equals the lookup with fallback to the standard table.
C10_FallbackIndistinguishable ==
  \A t \in Callers :
    (DoneParameter(t) /\ center_id[t] = 98)
      => result[t] = FallbackLookup(parameter[t])

\* C10 amended: get_parameter(98, parameter) equals the lookup with fallback
\* for every parameter number except 7; for 7 it is None while the lookup
\* with fallback gives the standard record "gh" (7 is the one code of the
\* standard table without an ECMWF arm).
C10_FallbackDiffersOnlyAt7 ==
  \A t \in Callers :
    (DoneParameter(t) /\ center_id[t] = 98)
      => /\ parameter[t] # 7 => result[t] = FallbackLookup(parameter[t])
         /\ parameter[t] = 7
              => /\ result[t] = None
                 /\ FallbackLookup(7)
                      = Some(Grib1Parameter(7, "gh", "Geopotential height",
                                            "gpm"))

\* get_parameter(98, 1) returned the ECMWF record, as the lookup with
\* fallback does, where the standard table has another record for 1.
C10_Witness ==
  \E t \in Callers :
    /\ DoneParameter(t)
    /\ center_id[t] = 98
    /\ parameter[t] = 1
    /\ result[t] = FallbackLookup(1)
    /\ result[t] # get_wmo_standard_parameter(1)

\* Abbreviation, name and units of a record, without its number.
Text(r) == <<r.abbreviation, r.name, r.units>>

\* C11: for a parameter number with an arm in both the ECMWF and the standard
\* table (1, 2, 11, 33, 34, 39, 51, 52, 61), center 98 returns the ECMWF
\* record and every other center the standard one; the two records differ
\* for 1, 33, 34, 39 and 61 (61 has unit "m" for 98 and "kg m-2" otherwise,
\* 33 is "rsn" for 98 and "u" otherwise) and have the same abbreviation,
\* name and unit for 2, 11, 51 and 52.
C11_EcmwfRecordWins ==
  \A t \in Callers :
    (DoneParameter(t) /\ parameter[t] \in EcmwfCodes \cap WmoCodes)
      => LET p == parameter[t]
             e == EcmwfArms[FirstArm(EcmwfArms, p)].value
             w == WmoArms[FirstArm(WmoArms, p)].value
         IN  /\ p \in {1, 33, 34, 39, 61} \cup {2, 11, 51, 52}
             /\ center_id[t] = 98 => result[t] = Some(e)
             /\ center_id[t] # 98 => result[t] = Some(w)
             /\ p \in {1, 33, 34, 39, 61}
                  => /\ Text(e) # Text(w)
                     /\ center_id[t] = 98 => result[t] # Some(w)
                     /\ center_id[t] # 98 => result[t] # Some(e)
             /\ p \in {2, 11, 51, 52} => Text(e) = Text(w)
             /\ p = 61
                  => result[t][2].units
                       = IF center_id[t] = 98 THEN "m" ELSE "kg m-2"
             /\ p = 33
                  => result[t][2].abbreviation
                       = IF center_id[t] = 98 THEN "rsn" ELSE "u"

\* get_parameter(98, 61) returned the ECMWF record with unit "m", where the
\* standard record has "kg m-2".
C11_Witness ==
  \E t \in Callers :
    /\ DoneParameter(t)
    /\ center_id[t] = 98
    /\ parameter[t] = 61
    /\ result[t][1] = "Some"
    /\ result[t][2].units = "m"
    /\ get_wmo_standard_parameter(61)[2].units = "kg m-2"

====
